---- MODULE Spec2Model ----
(***************************************************************************)
(* Co-training of two recommenders (recsys-cotraining).                    *)
(*                                                                         *)
(*   CoTraining.fit   recommenders/cotraining.py : the orchestration loop, *)
(*                    the pool U' and the two training matrices X1, X2.    *)
(*   FunkSVD.label, AsySVD.label, BPRMF.label   recommenders/mf.py : the   *)
(*                    pseudo-labelling policies.                           *)
(*                                                                         *)
(* Ratings and scores are float32 values in the code; the model keeps them *)
(* as integers in hundredths (3.5 is 350, 0.75 is 75), which represents    *)
(* every threshold and clamp bound of the code exactly.                    *)
(***************************************************************************)
EXTENDS Integers, Sequences, FiniteSets, TLC

\* ------------------------------------------------------------------ bounds
NUsers == 2
NItems == 2
MaxCands == 3
MaxMost == 2

\* ------------------------------------------------- constants of the code
PosThreshold == 350
NegThreshold == 250
MaxRating == 500
MinRating == 100
BinThreshold == 75
BinMax == 100
AsyPosLow == 400
AsyNegHigh == 300
BprBinPos == 100
BprBinNeg == 0

Users == 0..(NUsers - 1)
Items == 0..(NItems - 1)
Pairs == Users \X Items

\* ------------------------------------------------------ sequence helpers
Min2(a, b) == IF a < b THEN a ELSE b

\* Python slice seq[:n] for n >= 0
Take(seq, n) == SubSeq(seq, 1, Min2(n, Len(seq)))

\* Python slice seq[-n:] for n >= 0.  -0 is 0, so seq[-0:] is seq[0:], the
\* whole sequence; for n > len the start is clipped to 0.
LastSlice(seq, n) ==
    IF n = 0 \/ n >= Len(seq) THEN seq
    ELSE SubSeq(seq, Len(seq) - n + 1, Len(seq))

\* a mutation of Reverse: the order is kept
NoReverse(seq) == seq

\* seq[::-1]
Reverse(seq) == [k \in 1..Len(seq) |-> seq[Len(seq) + 1 - k]]

\* (user, item) tuple order used by sorted(..., key=(user, item)) and by the
\* row-major order of nonzero()
KeyLess(p, q) == p[1] < q[1] \/ (p[1] = q[1] /\ p[2] < q[2])

\* ndarray.argsort(): indices (1-based here) in ascending order of value.
\* The arrays of the model are far below numpy's insertion-sort cut-off, so
\* equal values keep their index order.
argsort(s) ==
    LET Rank(k) == Cardinality({j \in 1..Len(s) :
                        s[j] < s[k] \/ (s[j] = s[k] /\ j < k)})
    IN [r \in 1..Len(s) |-> CHOOSE k \in 1..Len(s) : Rank(k) = r - 1]

\* boolean-mask indexing arr[mask]: the positions where the mask holds, in
\* ascending order
MaskIdx(mask) ==
    SelectSeq([k \in 1..Len(mask) |-> k], LAMBDA k : mask[k])

Triplet(p, r, c) == [user |-> p[1], item |-> p[2], rating |-> r, cls |-> c]

TKey(t) == <<t.user, t.item>>

\* a mutation of SortedTriplets: the list is returned in selection order
UnsortedTriplets(l) == l

\* sorted(scores, key=lambda triplet: (triplet[0], triplet[1])); Python's
\* sort is stable
SortedTriplets(l) ==
    LET Rank(k) == Cardinality({j \in 1..Len(l) :
                        KeyLess(TKey(l[j]), TKey(l[k]))
                        \/ (TKey(l[j]) = TKey(l[k]) /\ j < k)})
    IN [r \in 1..Len(l) |-> l[CHOOSE k \in 1..Len(l) : Rank(k) = r - 1]]

\* row-major list of a set of pairs, as nonzero() of a sparse matrix
RECURSIVE SortPairs(_)
SortPairs(S) ==
    IF S = {} THEN <<>>
    ELSE LET m == CHOOSE p \in S : \A q \in S : p = q \/ KeyLess(p, q)
         IN <<m>> \o SortPairs(S \ {m})

\* a mutation of PairSet: every candidate is put in the set
PairSetAll(cands, idx) == {cands[k] : k \in 1..Len(cands)}

\* set(zip(users[mask], items[mask]))
PairSet(cands, idx) == {cands[idx[k]] : k \in 1..Len(idx)}

\* ------------------------------------------------------------ label results
\* What a label call hands back: it raised, or a triplet list, with the
\* meta dictionary when the implementation returns one.  The cls field of a
\* triplet records which of the two list comprehensions produced it.
Raised ==
    [raised |-> TRUE, triplets |-> <<>>, has_meta |-> FALSE,
     pos_labels |-> 0, neg_labels |-> 0, total_labels |-> 0,
     pos_set |-> {}, neg_set |-> {}, neutral_set |-> {}]

Returned(trip, hm, np, nn, ps, ns, zs) ==
    [raised |-> FALSE, triplets |-> trip, has_meta |-> hm,
     pos_labels |-> np, neg_labels |-> nn, total_labels |-> np + nn,
     pos_set |-> ps, neg_set |-> ns, neutral_set |-> zs]

\* a mutation of ClampPos / ClampNeg: the raw score is emitted
NoClamp(s) == s

\* p_filtered_scores[i] if p_filtered_scores[i] < 5.0 else 5.0
ClampPos(s) == IF s < MaxRating THEN s ELSE MaxRating

\* n_filtered_scores[i] if n_filtered_scores[i] > 1.0 else 1.0
ClampNeg(s) == IF s > MinRating THEN s ELSE MinRating

\* the common tail of the threshold-based labels: order each class by
\* confidence, truncate, package; clamp is TRUE for FunkSVD, whose list
\* comprehensions clamp the emitted score, FALSE for AsySVD, which emits it
ThresholdSelect(cands, sc, p_idx, n_idx, p_most, n_most, clamp) ==
    LET p_filtered_scores == [k \in 1..Len(p_idx) |-> sc[p_idx[k]]]
        n_filtered_scores == [k \in 1..Len(n_idx) |-> sc[n_idx[k]]]
        p_sorted_scores == Take(Reverse(argsort(p_filtered_scores)), p_most)
        n_sorted_scores == Take(argsort(n_filtered_scores), n_most)
        pos == [k \in 1..Len(p_sorted_scores) |->
                  Triplet(cands[p_idx[p_sorted_scores[k]]],
                          IF clamp
                          THEN ClampPos(p_filtered_scores[p_sorted_scores[k]])
                          ELSE p_filtered_scores[p_sorted_scores[k]], "pos")]
        neg == [k \in 1..Len(n_sorted_scores) |->
                  Triplet(cands[n_idx[n_sorted_scores[k]]],
                          IF clamp
                          THEN ClampNeg(n_filtered_scores[n_sorted_scores[k]])
                          ELSE n_filtered_scores[n_sorted_scores[k]], "neg")]
    IN [scores |-> pos \o neg,
        npos |-> Len(p_sorted_scores), nneg |-> Len(n_sorted_scores)]

\* FunkSVD.label.  In binary mode neutral_mask is never assigned and line
\* 246 raises NameError.
FunkSVD_label(cands, sc, binary_ratings, p_most, n_most) ==
    IF binary_ratings THEN Raised
    ELSE
      LET p_idx == MaskIdx([k \in 1..Len(sc) |-> sc[k] >= PosThreshold])
          n_idx == MaskIdx([k \in 1..Len(sc) |-> sc[k] <= NegThreshold])
          z_idx == MaskIdx([k \in 1..Len(sc) |-> sc[k] > NegThreshold /\ sc[k] < PosThreshold])
          sel == ThresholdSelect(cands, sc, p_idx, n_idx, p_most, n_most,
                                 TRUE)
      IN Returned(SortedTriplets(sel.scores), TRUE, sel.npos, sel.nneg,
                  PairSet(cands, p_idx), PairSet(cands, n_idx),
                  PairSet(cands, z_idx))

\* AsySVD.label: own thresholds, no clamp, no meta dictionary
AsySVD_label(cands, sc, binary_ratings, p_most, n_most) ==
    LET p_idx == IF binary_ratings
                 THEN MaskIdx([k \in 1..Len(sc) |-> sc[k] >= BinThreshold /\ sc[k] <= BinMax])
                 ELSE MaskIdx([k \in 1..Len(sc) |-> sc[k] >= AsyPosLow /\ sc[k] <= MaxRating])
        n_idx == IF binary_ratings
                 THEN MaskIdx([k \in 1..Len(sc) |-> sc[k] >= 0 /\ sc[k] < BinThreshold])
                 ELSE MaskIdx([k \in 1..Len(sc) |-> sc[k] >= MinRating /\ sc[k] <= AsyNegHigh])
        sel == ThresholdSelect(cands, sc, p_idx, n_idx, p_most, n_most,
                               FALSE)
    IN Returned(SortedTriplets(sel.scores), FALSE, 0, 0, {}, {}, {})

\* BPRMF.label: global rank, constant ratings
BPRMF_label(cands, sc, binary_ratings, p_most, n_most) ==
    LET sorted_filtered_scores == argsort(sc)
        p_sorted_scores == LastSlice(sorted_filtered_scores, p_most)
        n_sorted_scores == Take(sorted_filtered_scores, n_most)
        pr == IF binary_ratings THEN BprBinPos ELSE MaxRating
        nr == IF binary_ratings THEN BprBinNeg ELSE MinRating
        pos == [k \in 1..Len(p_sorted_scores) |->
                  Triplet(cands[p_sorted_scores[k]], pr, "pos")]
        neg == [k \in 1..Len(n_sorted_scores) |->
                  Triplet(cands[n_sorted_scores[k]], nr, "neg")]
    IN Returned(SortedTriplets(pos \o neg), TRUE,
                Len(p_sorted_scores), Len(n_sorted_scores),
                PairSet(cands, p_sorted_scores),
                PairSet(cands, n_sorted_scores), {})

Kinds == {"FunkSVD", "AsySVD", "BPRMF"}

Label(kind, cands, sc, binary_ratings, p_most, n_most) ==
    CASE kind = "FunkSVD" -> FunkSVD_label(cands, sc, binary_ratings, p_most, n_most)
      [] kind = "AsySVD" -> AsySVD_label(cands, sc, binary_ratings, p_most, n_most)
      [] kind = "BPRMF" -> BPRMF_label(cands, sc, binary_ratings, p_most, n_most)


\* ===================================================================
\* CoTraining.fit
\* ===================================================================
MaxIters == 2
MaxLabels == 2
MaxRated == 1
MaxFaults == 1
MaxFree == 1
OrchMost == 1

\* scores the fitted models may give a candidate: clearly negative (below
\* the rating floor), neutral, clearly positive
OrchScores == {100, 300, 500}

VARIABLES
    pc,          \* position in fit (or "idle" / "call" / "returned")
    self,        \* n_iters, n_labels, p_most, n_most and the two recommender types
    X1, X2,      \* training matrices: pair -> rating, 0 for an absent entry
    u_prime,     \* the pool: a dict pair -> flag; consumed keys stay with flag 0
    i,           \* counter of the seeding / replenishment loop
    i_iter,      \* round index, -1 before the first round
    labeled1, labeled2,   \* the local names: [bound, fresh, list]
    fitted1, fitted2,     \* round of the model state each recommender holds, -1 for none
    rec_evals,   \* Evaluation.rec_evals lists: the round each entry was computed in
    logged,      \* rows written by log_by_index: <<index, round of the metrics, recommender>>
    u_before,    \* history: the pool when the current replenishment started
    faults,      \* number of calls that raised so far
    given1, given2,       \* history: the pairs each recommender's lists have named in Apply
    lab_in, lab_out,      \* a single label call: its arguments and its result
    twin         \* a second run of fit on the same seed, and the generator's stream

vars == <<pc, self, X1, X2, u_prime, i, i_iter, labeled1, labeled2,
          fitted1, fitted2, rec_evals, logged, u_before, faults, given1, given2,
          lab_in, lab_out, twin>>

EmptyMatrix == [p \in Pairs |-> 0]
EmptyDict == [p \in {} |-> 0]
Unbound == [bound |-> FALSE, fresh |-> FALSE, list |-> <<>>]
\* no second run
NoTwin == [turn |-> "none"]
NoCall == [kind |-> "none", cands |-> <<>>, sc |-> <<>>,
           binary_ratings |-> FALSE, p_most |-> 0, n_most |-> 0]

\* dok_matrix.get(key, 0)
Get(X, p) == X[p]

\* dict.update({key: value}) on the pool
DictPut(d, p, v) == [q \in (DOMAIN d) \cup {p} |-> IF q = p THEN v ELSE d[q]]

\* pairs currently pooled: flag nonzero
Pool(d) == {p \in DOMAIN d : d[p] # 0}

\* u_prime.keys() as handed to the labelers
Keys(d) == SortPairs(DOMAIN d)

\* a mutation of UpdateAll: the labels are written into a matrix that holds
\* nothing else
RECURSIVE UpdateFresh(_, _)
UpdateFresh(X, l) ==
    IF l = <<>> THEN EmptyMatrix
    ELSE [UpdateFresh(X, SubSeq(l, 1, Len(l) - 1)) EXCEPT
            ![TKey(l[Len(l)])] = l[Len(l)].rating]

\* for user_idx, item_idx, label in labeled: X.update({(user_idx,item_idx): label})
RECURSIVE UpdateAll(_, _)
UpdateAll(X, l) ==
    IF l = <<>> THEN X
    ELSE [UpdateAll(X, SubSeq(l, 1, Len(l) - 1)) EXCEPT
            ![TKey(l[Len(l)])] = l[Len(l)].rating]

\* for ... in labeled: u_prime.update({(user_idx,item_idx): 0})
RECURSIVE ConsumeAll(_, _)
ConsumeAll(d, l) ==
    IF l = <<>> THEN d
    ELSE DictPut(ConsumeAll(d, SubSeq(l, 1, Len(l) - 1)), TKey(l[Len(l)]), 0)

\* the (user, item) pairs a triplet list names
ListKeys(l) == {TKey(l[k]) : k \in 1..Len(l)}

\* a mutation of SeedAccept: every draw is accepted
SeedAcceptAny(A, p) == TRUE

\* the acceptance test of the seeding loop
SeedAccept(A, p) == Get(A, p) = 0

\* a mutation of ReplenishAccept: only X1 is consulted, as in seeding
ReplenishAcceptX1(A, B, p) == Get(A, p) = 0

\* the acceptance test of the replenishment loop
ReplenishAccept(A, B, p) == Get(A, p) = 0 /\ Get(B, p) = 0

\* a mutation of ReplenishCount: only the first labeler's triplets are counted
ReplenishCountFirst(l1, l2) == Len(l1)

\* len(labeled1) + len(labeled2)
ReplenishCount(l1, l2) == Len(l1) + Len(l2)

\* the observed ratings fit is given: the first cells of the matrix, either
\* few of them (at least one and up to MaxRated) or all but at most MaxFree
InitMatrices ==
    {[p \in Pairs |-> IF p \in {Keys([q \in Pairs |-> 1])[k] : k \in 1..n}
                      THEN MaxRating ELSE 0] :
        n \in (1..MaxRated) \cup ((NUsers * NItems - MaxFree)..(NUsers * NItems))}

\* the recommender types of a run
RecPairs == {<<"FunkSVD", "BPRMF">>, <<"AsySVD", "FunkSVD">>, <<"BPRMF", "AsySVD">>}

Init ==
    /\ pc = "seed"
    /\ self \in {[n_iters |-> ni, n_labels |-> nl, p_most |-> pm, n_most |-> nm,
                  rec_1 |-> rp[1], rec_2 |-> rp[2]] :
                   ni \in 0..MaxIters, nl \in 1..MaxLabels,
                   pm \in 0..OrchMost, nm \in 0..OrchMost, rp \in RecPairs}
    /\ X1 \in InitMatrices
    /\ X2 = EmptyMatrix
    /\ u_prime = EmptyDict
    /\ i = 0
    /\ i_iter = -1
    /\ labeled1 = Unbound
    /\ labeled2 = Unbound
    /\ fitted1 = -1
    /\ fitted2 = -1
    /\ rec_evals = <<>>
    /\ logged = {}
    /\ u_before = EmptyDict
    /\ faults = 0
    /\ given1 = {}
    /\ given2 = {}
    /\ lab_in = NoCall
    /\ lab_out = Raised
    /\ twin = NoTwin

\* one pass of the seeding loop: a uniformly drawn pair
SeedDraw ==
    /\ pc = "seed"
    /\ i < self.n_labels
    /\ \E p \in Pairs :
         IF SeedAccept(X1, p)
         THEN /\ u_prime' = DictPut(u_prime, p, 1)
              /\ i' = i + 1
         ELSE UNCHANGED <<u_prime, i>>
    /\ UNCHANGED <<pc, self, X1, X2, i_iter, labeled1, labeled2, fitted1,
                   fitted2, rec_evals, logged, u_before, faults, given1, given2,
                   lab_in, lab_out, twin>>

\* the seeding loop exits; X2 = X1.copy()
SeedExit ==
    /\ pc = "seed"
    /\ i >= self.n_labels
    /\ X2' = X1
    /\ pc' = "loop"
    /\ UNCHANGED <<self, X1, u_prime, i, i_iter, labeled1, labeled2, fitted1,
                   fitted2, rec_evals, logged, u_before, faults, given1, given2,
                   lab_in, lab_out, twin>>

\* for i_iter in range(self.n_iters)
LoopHead ==
    /\ pc = "loop"
    /\ IF i_iter + 1 < self.n_iters
       THEN i_iter' = i_iter + 1 /\ pc' = "fit1"
       ELSE i_iter' = i_iter /\ pc' = "done"
    /\ u_before' = EmptyDict
    /\ UNCHANGED <<self, X1, X2, u_prime, i, labeled1, labeled2, fitted1,
                   fitted2, rec_evals, logged, faults, given1, given2,
                   lab_in, lab_out, twin>>

\* the outcomes of a call into a recommender or the evaluator: it returns,
\* or (while the run has raised fewer than MaxFaults times) it raises
OkOrRaise == IF faults < MaxFaults THEN {TRUE, FALSE} ELSE {TRUE}

\* a mutation of Fit1: the two recommenders share their model state, so
\* fitting recommender 1 replaces recommender 2's model as well
Fit1Shared ==
    /\ pc = "fit1"
    /\ \E ok \in OkOrRaise :
         /\ fitted1' = IF ok THEN i_iter ELSE fitted1
         /\ fitted2' = IF ok THEN i_iter ELSE fitted2
         /\ faults' = IF ok THEN faults ELSE faults + 1
    /\ pc' = "fit2"
    /\ UNCHANGED <<self, X1, X2, u_prime, i, i_iter, labeled1, labeled2,
                   rec_evals, logged, u_before, given1, given2,
                   lab_in, lab_out, twin>>

\* self.rec_1.fit(X1) inside try/except
Fit1 ==
    /\ pc = "fit1"
    /\ \E ok \in OkOrRaise :
         /\ fitted1' = IF ok THEN i_iter ELSE fitted1
         /\ faults' = IF ok THEN faults ELSE faults + 1
    /\ pc' = "fit2"
    /\ UNCHANGED <<self, X1, X2, u_prime, i, i_iter, labeled1, labeled2,
                   fitted2, rec_evals, logged, u_before, given1, given2,
                   lab_in, lab_out, twin>>

\* self.rec_2.fit(X2): the try/except around it is commented out
Fit2 ==
    /\ pc = "fit2"
    /\ \E ok \in OkOrRaise :
         /\ IF ok THEN fitted2' = i_iter /\ pc' = "eval"
            ELSE fitted2' = fitted2 /\ pc' = "aborted"
         /\ faults' = IF ok THEN faults ELSE faults + 1
    /\ UNCHANGED <<self, X1, X2, u_prime, i, i_iter, labeled1, labeled2,
                   fitted1, rec_evals, logged, u_before, given1, given2,
                   lab_in, lab_out, twin>>

\* what the try block of the evaluation step can do: both calls return,
\* eval raises, or log_by_index raises before its first or before its second
\* results_to_file call
EvalOutcomes ==
    {"ok"} \cup (IF FALSE \in OkOrRaise
                 THEN {"eval_raises", "log_raises_first", "log_raises_second"}
                 ELSE {})

\* the rows log_by_index(index, rec_1, rec_2) writes, one per recommender:
\* <<index, round the metrics at that index were computed in, recommender>>.
\* Reading an index the lists do not have raises IndexError before any row.
LogRows(evals, index, outcome) ==
    IF index + 1 > Len(evals) \/ outcome \in {"eval_raises", "log_raises_first"}
    THEN {}
    ELSE IF outcome = "log_raises_second"
    THEN {<<index, evals[index + 1], 1>>}
    ELSE {<<index, evals[index + 1], 1>>, <<index, evals[index + 1], 2>>}

\* self.eval.eval(...); self.eval.log_by_index(i_iter, ...) inside try/except:
\* eval appends the round's metrics to the rec_evals lists as its last step
Evaluate ==
    /\ pc = "eval"
    /\ \E outcome \in EvalOutcomes :
         /\ faults' = IF outcome = "ok" THEN faults ELSE faults + 1
         /\ rec_evals' = IF outcome = "eval_raises" THEN rec_evals
                         ELSE Append(rec_evals, i_iter)
         /\ logged' = logged \cup LogRows(rec_evals', i_iter, outcome)
    /\ pc' = "label1"
    /\ UNCHANGED <<self, X1, X2, u_prime, i, i_iter, labeled1, labeled2,
                   fitted1, fitted2, u_before, given1, given2,
                   lab_in, lab_out, twin>>

\* the result of rec.label(unlabeled_list=list(u_prime.keys()), binary_ratings=False, ...):
\* the call raises, or returns what the recommender's label computes from the
\* scores its model gives the candidates
LabelOutcomes(kind, fitted) ==
    (IF fitted < 0 \/ FALSE \in OkOrRaise THEN {Raised} ELSE {}) \cup
    (IF fitted < 0 THEN {}
     ELSE {Label(kind, Keys(u_prime), sc, FALSE, self.p_most, self.n_most) :
             sc \in [1..Len(Keys(u_prime)) -> OrchScores]})

\* the assignment labeled = rec.label(...) inside try/except: a raise leaves
\* the name as it was
Bind(old, res) ==
    IF res.raised THEN [old EXCEPT !.fresh = FALSE]
    ELSE [bound |-> TRUE, fresh |-> TRUE, list |-> res.triplets]

Label1 ==
    /\ pc = "label1"
    /\ \E res \in LabelOutcomes(self.rec_1, fitted1) :
         /\ labeled1' = Bind(labeled1, res)
         /\ faults' = IF res.raised THEN Min2(faults + 1, MaxFaults) ELSE faults
    /\ pc' = "label2"
    /\ UNCHANGED <<self, X1, X2, u_prime, i, i_iter, labeled2, fitted1,
                   fitted2, rec_evals, logged, u_before, given1, given2,
                   lab_in, lab_out, twin>>

\* a mutation of Label2: recommender 1's labels are consumed from the pool
\* before recommender 2 is handed its candidates
Label2AfterConsume ==
    /\ pc = "label2"
    /\ \E res \in {Label(self.rec_2,
                          Keys(ConsumeAll(u_prime, labeled1.list)), sc, FALSE,
                          self.p_most, self.n_most) :
                       sc \in [1..Len(Keys(u_prime)) -> OrchScores]} :
         /\ labeled2' = Bind(labeled2, res)
         /\ u_prime' = ConsumeAll(u_prime, labeled1.list)
    /\ pc' = "apply"
    /\ UNCHANGED <<self, X1, X2, i, i_iter, labeled1, fitted1,
                   fitted2, rec_evals, logged, u_before, faults, given1, given2,
                   lab_in, lab_out, twin>>

Label2 ==
    /\ pc = "label2"
    /\ \E res \in LabelOutcomes(self.rec_2, fitted2) :
         /\ labeled2' = Bind(labeled2, res)
         /\ faults' = IF res.raised THEN Min2(faults + 1, MaxFaults) ELSE faults
    /\ pc' = "apply"
    /\ UNCHANGED <<self, X1, X2, u_prime, i, i_iter, labeled1, fitted1,
                   fitted2, rec_evals, logged, u_before, given1, given2,
                   lab_in, lab_out, twin>>

\* the two cross-application loops; an unbound name raises NameError, which
\* nothing catches
Apply ==
    /\ pc = "apply"
    /\ IF ~labeled1.bound
       THEN /\ pc' = "aborted"
            /\ UNCHANGED <<X1, X2, u_prime, i, u_before, given1, given2>>
       ELSE IF ~labeled2.bound
       THEN /\ pc' = "aborted"
            /\ X2' = UpdateAll(X2, labeled1.list)
            /\ u_prime' = ConsumeAll(u_prime, labeled1.list)
            /\ given1' = given1 \cup ListKeys(labeled1.list)
            /\ UNCHANGED <<X1, i, u_before, given2>>
       ELSE /\ pc' = "replenish"
            /\ X2' = UpdateAll(X2, labeled1.list)
            /\ X1' = UpdateAll(X1, labeled2.list)
            /\ u_prime' = ConsumeAll(ConsumeAll(u_prime, labeled1.list),
                                     labeled2.list)
            /\ i' = 0
            /\ u_before' = u_prime'
            /\ given1' = given1 \cup ListKeys(labeled1.list)
            /\ given2' = given2 \cup ListKeys(labeled2.list)
    /\ UNCHANGED <<self, i_iter, labeled1, labeled2, fitted1, fitted2,
                   rec_evals, logged, faults, lab_in, lab_out, twin>>

\* one pass of the replenishment loop
ReplenishDraw ==
    /\ pc = "replenish"
    /\ i < ReplenishCount(labeled1.list, labeled2.list)
    /\ \E p \in Pairs :
         IF ReplenishAccept(X1, X2, p)
         THEN /\ u_prime' = DictPut(u_prime, p, 1)
              /\ i' = i + 1
         ELSE UNCHANGED <<u_prime, i>>
    /\ UNCHANGED <<pc, self, X1, X2, i_iter, labeled1, labeled2, fitted1,
                   fitted2, rec_evals, logged, u_before, faults, given1, given2,
                   lab_in, lab_out, twin>>

ReplenishExit ==
    /\ pc = "replenish"
    /\ i >= ReplenishCount(labeled1.list, labeled2.list)
    /\ pc' = "loop"
    /\ UNCHANGED <<self, X1, X2, u_prime, i, i_iter, labeled1, labeled2,
                   fitted1, fitted2, rec_evals, logged, u_before, faults, given1, given2,
                   lab_in, lab_out, twin>>

Next ==
    \/ SeedDraw
    \/ SeedExit
    \/ LoopHead
    \/ Fit1
    \/ Fit2
    \/ Evaluate
    \/ Label1
    \/ Label2
    \/ Apply
    \/ ReplenishDraw
    \/ ReplenishExit

Spec == Init /\ [][Next]_vars

\* ===================================================================
\* A single label call on a fitted recommender
\* ===================================================================
\* scores the model may give a candidate, in hundredths
ExplicitScores == {50, 200, 250, 300, 350, 450, 600}
BinaryScores == {-10, 10, 20, 75, 90, 110}

\* users, items = unlabeled_list.nonzero(): distinct pairs in row-major order
CandidateLists ==
    {SortPairs(S) : S \in {T \in SUBSET Pairs : Cardinality(T) <= MaxCands}}

LabelInit ==
    /\ pc = "call"
    /\ \E k \in Kinds, c \in CandidateLists, b \in BOOLEAN,
          pm \in 0..MaxMost, nm \in 0..MaxMost :
         \E s \in [1..Len(c) -> IF b THEN BinaryScores ELSE ExplicitScores] :
           lab_in = [kind |-> k, cands |-> c, sc |-> s, binary_ratings |-> b,
                     p_most |-> pm, n_most |-> nm]
    /\ lab_out = Raised
    /\ self = [n_iters |-> 0, n_labels |-> 0, p_most |-> 0, n_most |-> 0,
               rec_1 |-> "none", rec_2 |-> "none"]
    /\ X1 = EmptyMatrix
    /\ X2 = EmptyMatrix
    /\ u_prime = EmptyDict
    /\ i = 0
    /\ i_iter = -1
    /\ labeled1 = Unbound
    /\ labeled2 = Unbound
    /\ fitted1 = -1
    /\ fitted2 = -1
    /\ rec_evals = <<>>
    /\ logged = {}
    /\ u_before = EmptyDict
    /\ faults = 0
    /\ given1 = {}
    /\ given2 = {}
    /\ twin = NoTwin

CallLabel(kind) ==
    /\ pc = "call"
    /\ lab_in.kind = kind
    /\ lab_out' = Label(kind, lab_in.cands, lab_in.sc, lab_in.binary_ratings,
                        lab_in.p_most, lab_in.n_most)
    /\ pc' = "returned"
    /\ UNCHANGED <<self, X1, X2, u_prime, i, i_iter, labeled1, labeled2,
                   fitted1, fitted2, rec_evals, logged, u_before, faults,
                   given1, given2, lab_in, twin>>

CallFunkSVD == CallLabel("FunkSVD")
CallAsySVD == CallLabel("AsySVD")
CallBPRMF == CallLabel("BPRMF")

\* a mutation of CallAgain: the first call has disturbed the recommender's
\* factors, so the second call scores the candidates in reversed order
CallAgainDisturbed ==
    /\ pc = "returned"
    /\ lab_out' = Label(lab_in.kind, lab_in.cands, Reverse(lab_in.sc),
                        lab_in.binary_ratings, lab_in.p_most, lab_in.n_most)
    /\ pc' = "again"
    /\ UNCHANGED <<self, X1, X2, u_prime, i, i_iter, labeled1, labeled2,
                   fitted1, fitted2, rec_evals, logged, u_before, faults,
                   given1, given2, lab_in, twin>>

\* a second call of label on the same recommender with the same arguments:
\* label reads the model's factors and writes nothing to the recommender, so
\* the call scores the candidates as the first one did
CallAgain ==
    /\ pc = "returned"
    /\ lab_out' = Label(lab_in.kind, lab_in.cands, lab_in.sc,
                        lab_in.binary_ratings, lab_in.p_most, lab_in.n_most)
    /\ pc' = "again"
    /\ UNCHANGED <<self, X1, X2, u_prime, i, i_iter, labeled1, labeled2,
                   fitted1, fitted2, rec_evals, logged, u_before, faults,
                   given1, given2, lab_in, twin>>

\* the values label accepts for score_mode
ScoreModes == {"user", "batch", "matrix"}

\* np.dot(U, V.T): the prediction of the fitted model for every cell, the
\* candidates' predictions being the scores of the call
ScoreMatrix(cands, sc) ==
    [p \in Pairs |->
        IF \E k \in 1..Len(cands) : cands[k] = p
        THEN sc[CHOOSE k \in 1..Len(cands) : cands[k] = p]
        ELSE 0]

\* score_mode == 'user': one row of predictions per user, recomputed when
\* the user changes
RECURSIVE PerUser(_, _, _, _, _)
PerUser(cands, M, k, curr_user, scores) ==
    IF k > Len(cands) THEN <<>>
    ELSE LET user == cands[k][1]
             item == cands[k][2]
             row == IF curr_user # user
                    THEN [it \in Items |-> M[<<user, it>>]]
                    ELSE scores
         IN <<row[item]>> \o PerUser(cands, M, k + 1, user, row)

\* score_mode == 'matrix': the rows of the users of the call, indexed through
\* np.unique(users, return_inverse=True)
PerMatrix(cands, M) ==
    LET users == [k \in 1..Len(cands) |-> cands[k][1]]
        uniq_users == {users[k] : k \in 1..Len(cands)}
        user_to_idx == [k \in 1..Len(cands) |->
                           Cardinality({u \in uniq_users : u < users[k]}) + 1]
        rowuser == [r \in 1..Cardinality(uniq_users) |->
                       CHOOSE u \in uniq_users :
                          Cardinality({v \in uniq_users : v < u}) + 1 = r]
        scores == [r \in 1..Cardinality(uniq_users) |->
                      [it \in Items |-> M[<<rowuser[r], it>>]]]
    IN [k \in 1..Len(cands) |-> scores[user_to_idx[k]][cands[k][2]]]

\* label with an explicit score_mode.  The 'batch' branch is `pass`:
\* filtered_scores stays unbound and the mask that follows raises.
LabelMode(kind, score_mode, cands, sc, binary_ratings, p_most, n_most) ==
    CASE score_mode = "user" ->
           Label(kind, cands,
                 PerUser(cands, ScoreMatrix(cands, sc), 1, -1,
                         [it \in Items |-> 0]),
                 binary_ratings, p_most, n_most)
      [] score_mode = "matrix" ->
           Label(kind, cands, PerMatrix(cands, ScoreMatrix(cands, sc)),
                 binary_ratings, p_most, n_most)
      [] score_mode = "batch" -> Raised

\* a further call of label on the same recommender with the same arguments
\* and a score_mode; FunkSVD.label and BPRMF.label take the argument
CallMode ==
    /\ pc = "returned"
    /\ lab_in.kind \in {"FunkSVD", "BPRMF"}
    /\ \E score_mode \in ScoreModes :
         /\ lab_out' = LabelMode(lab_in.kind, score_mode, lab_in.cands,
                                 lab_in.sc, lab_in.binary_ratings,
                                 lab_in.p_most, lab_in.n_most)
         /\ pc' = score_mode
    /\ UNCHANGED <<self, X1, X2, u_prime, i, i_iter, labeled1, labeled2,
                   fitted1, fitted2, rec_evals, logged, u_before, faults,
                   given1, given2, lab_in, twin>>

LabelNext ==
    \/ CallFunkSVD
    \/ CallAsySVD
    \/ CallBPRMF
    \/ CallAgain
    \/ CallMode

LabelSpec == LabelInit /\ [][LabelNext]_vars

\* ===================================================================
\* Two runs of CoTraining.fit with the same seed, the same X1 and the same
\* recommender outputs.  Run A lives in the variables of fit, run B in
\* twin.run; twin.stream holds the values the generator
\* np.random.RandomState(self.seed) yields, revealed as they are first drawn,
\* and twin.pos / twin.run.pos how many of them each run has consumed.
\* The runs take turns, one phase (seeding, or one round) at a time.
\* ===================================================================
MaxStream == 4

\* the state of run A as a record
RunA ==
    [pc |-> pc, X1 |-> X1, X2 |-> X2, u_prime |-> u_prime, i |-> i,
     i_iter |-> i_iter, pos |-> twin.pos]

\* a mutation of Randint: the draw comes from a generator that was not
\* seeded from self.seed
RandintUnseeded(stream, pos, p) == TRUE

\* rng.randint(0, high=nusers), rng.randint(0, high=nitems) on the generator
\* created from self.seed: the pair at the generator's position, which is
\* the stream's value there once it has been revealed
Randint(stream, pos, p) == pos < Len(stream) => p = stream[pos + 1]

\* the next step of the run is a pass of a sampling loop
Draws(r, l1, l2) ==
    \/ r.pc = "seed" /\ r.i < self.n_labels
    \/ r.pc = "replenish" /\ r.i < ReplenishCount(l1, l2)

\* one step of a run of fit, given the pair p the generator yields if the
\* step draws and the lists l1, l2 the label calls of the round returned.
\* "calls" stands for the fit, evaluate and label calls of the round, which
\* touch neither the matrices, the pool nor the generator.
RunStep(r, p, l1, l2) ==
    CASE r.pc = "seed" ->
           IF r.i < self.n_labels
           THEN IF SeedAccept(r.X1, p)
                THEN [r EXCEPT !.u_prime = DictPut(@, p, 1), !.i = @ + 1,
                               !.pos = @ + 1]
                ELSE [r EXCEPT !.pos = @ + 1]
           ELSE [r EXCEPT !.X2 = r.X1, !.pc = "loop"]
      [] r.pc = "loop" ->
           IF r.i_iter + 1 < self.n_iters
           THEN [r EXCEPT !.i_iter = @ + 1, !.pc = "calls"]
           ELSE [r EXCEPT !.pc = "done"]
      [] r.pc = "calls" -> [r EXCEPT !.pc = "apply"]
      [] r.pc = "apply" ->
           [r EXCEPT !.X2 = UpdateAll(@, l1), !.X1 = UpdateAll(@, l2),
                     !.u_prime = ConsumeAll(ConsumeAll(@, l1), l2),
                     !.i = 0, !.pc = "replenish"]
      [] r.pc = "replenish" ->
           IF r.i < ReplenishCount(l1, l2)
           THEN IF ReplenishAccept(r.X1, r.X2, p)
                THEN [r EXCEPT !.u_prime = DictPut(@, p, 1), !.i = @ + 1,
                               !.pos = @ + 1]
                ELSE [r EXCEPT !.pos = @ + 1]
           ELSE [r EXCEPT !.pc = "loop"]
      [] OTHER -> r

\* the stream after a step that drew p at position pos
Revealed(stream, pos, draws, p) ==
    IF draws /\ pos >= Len(stream) THEN Append(stream, p) ELSE stream

\* the lists a recommender's label call can return on the pool of run A
ReturnedLists(kind) ==
    {Label(kind, Keys(u_prime), sc, FALSE, self.p_most, self.n_most).triplets :
        sc \in [1..Len(Keys(u_prime)) -> OrchScores]}

ReproInit ==
    /\ pc = "seed"
    /\ self \in {[n_iters |-> ni, n_labels |-> nl, p_most |-> pm, n_most |-> nm,
                  rec_1 |-> rp[1], rec_2 |-> rp[2]] :
                   ni \in 0..MaxIters, nl \in 1..MaxLabels,
                   pm \in 0..OrchMost, nm \in 0..OrchMost, rp \in RecPairs}
    /\ X1 \in InitMatrices
    /\ X2 = EmptyMatrix
    /\ u_prime = EmptyDict
    /\ i = 0
    /\ i_iter = -1
    /\ labeled1 = Unbound
    /\ labeled2 = Unbound
    /\ fitted1 = -1
    /\ fitted2 = -1
    /\ rec_evals = <<>>
    /\ logged = {}
    /\ u_before = EmptyDict
    /\ faults = 0
    /\ given1 = {}
    /\ given2 = {}
    /\ lab_in = NoCall
    /\ lab_out = Raised
    /\ twin = [turn |-> "A", stream |-> <<>>, pos |-> 0,
               run |-> [pc |-> "seed", X1 |-> X1, X2 |-> EmptyMatrix,
                        u_prime |-> EmptyDict, i |-> 0, i_iter |-> -1,
                        pos |-> 0]]

\* a phase of a run ends when the run is back at the loop head or has returned
PhaseEnd(r) == r.pc \in {"loop", "done"}

\* run A takes a step other than the calls into the recommenders
ReproStepA ==
    /\ twin.turn = "A"
    /\ pc \notin {"calls", "done"}
    /\ \E p \in Pairs :
         LET draws == Draws(RunA, labeled1.list, labeled2.list)
             next == RunStep(RunA, p, labeled1.list, labeled2.list)
         IN /\ Randint(twin.stream, twin.pos, p)
            /\ (draws /\ twin.pos >= Len(twin.stream)) => Len(twin.stream) < MaxStream
            /\ pc' = next.pc
            /\ X1' = next.X1
            /\ X2' = next.X2
            /\ u_prime' = next.u_prime
            /\ i' = next.i
            /\ i_iter' = next.i_iter
            /\ twin' = [twin EXCEPT
                          !.stream = Revealed(@, twin.pos, draws, p),
                          !.pos = next.pos,
                          !.turn = IF PhaseEnd(next) THEN "B" ELSE "A"]
    /\ UNCHANGED <<self, labeled1, labeled2, fitted1, fitted2, rec_evals,
                   logged, u_before, faults, given1, given2, lab_in, lab_out>>

\* the calls of run A's round return; the label calls return their lists
ReproCalls ==
    /\ twin.turn = "A"
    /\ pc = "calls"
    /\ \E l1 \in ReturnedLists(self.rec_1), l2 \in ReturnedLists(self.rec_2) :
         /\ labeled1' = [bound |-> TRUE, fresh |-> TRUE, list |-> l1]
         /\ labeled2' = [bound |-> TRUE, fresh |-> TRUE, list |-> l2]
    /\ pc' = "apply"
    /\ UNCHANGED <<self, X1, X2, u_prime, i, i_iter, fitted1, fitted2,
                   rec_evals, logged, u_before, faults, given1, given2,
                   lab_in, lab_out, twin>>

\* run B takes a step; its recommenders return what run A's returned
ReproStepB ==
    /\ twin.turn = "B"
    /\ \E p \in Pairs :
         LET r == twin.run
             draws == Draws(r, labeled1.list, labeled2.list)
             next == RunStep(r, p, labeled1.list, labeled2.list)
         IN /\ Randint(twin.stream, r.pos, p)
            /\ (draws /\ r.pos >= Len(twin.stream)) => Len(twin.stream) < MaxStream
            /\ twin' = [twin EXCEPT
                          !.stream = Revealed(@, r.pos, draws, p),
                          !.run = next,
                          !.turn = IF PhaseEnd(next) THEN "A" ELSE "B"]
    /\ UNCHANGED <<pc, self, X1, X2, u_prime, i, i_iter, labeled1, labeled2,
                   fitted1, fitted2, rec_evals, logged, u_before, faults,
                   given1, given2, lab_in, lab_out>>

ReproNext ==
    \/ ReproStepA
    \/ ReproCalls
    \/ ReproStepB

ReproSpec == ReproInit /\ [][ReproNext]_vars

\* ===================================================================
\* Properties of a label call (LabelSpec)
\* ===================================================================
LabelReturned == pc = "returned" /\ ~lab_out.raised

CountCls(l, c) == Cardinality({k \in 1..Len(l) : l[k].cls = c})

\* C8: for every label implementation, candidate list, p_most >= 0 and
\* n_most >= 0, the returned list holds at most p_most positive and at most
\* n_most negative triplets.
C8_AtMostPN ==
    LabelReturned =>
        /\ CountCls(lab_out.triplets, "pos") <= lab_in.p_most
        /\ CountCls(lab_out.triplets, "neg") <= lab_in.n_most

\* C9: the returned triplet list is sorted ascending by (user, item):
\* no triplet is followed by one with a smaller key.
C9_SortedByUserItem ==
    LabelReturned =>
        \A k \in 1..(Len(lab_out.triplets) - 1) :
            ~KeyLess(TKey(lab_out.triplets[k + 1]), TKey(lab_out.triplets[k]))

\* a returned list whose key order differs from the selection order
\* (positives first): a negative triplet comes before a positive one
C9_Witness ==
    /\ LabelReturned
    /\ Len(lab_out.triplets) >= 3
    /\ \E k \in 1..(Len(lab_out.triplets) - 1) :
         /\ lab_out.triplets[k].cls = "neg"
         /\ lab_out.triplets[k + 1].cls = "pos"
         /\ KeyLess(TKey(lab_out.triplets[k]), TKey(lab_out.triplets[k + 1]))

\* C10: every emitted rating lies in the valid range of the selected mode:
\* explicit mode in [1.0, 5.0]; binary mode in [0.0, 1.0] with a negative
\* triplet's rating below the 0.75 positive threshold.
C10_RatingInRange ==
    LabelReturned =>
        \A k \in 1..Len(lab_out.triplets) :
            LET t == lab_out.triplets[k]
            IN IF lab_in.binary_ratings
               THEN /\ t.rating >= 0
                    /\ t.rating <= BinMax
                    /\ (t.cls = "neg" => t.rating < BinThreshold)
               ELSE /\ t.rating >= MinRating
                    /\ t.rating <= MaxRating

\* an explicit-mode call of the clamping implementation in which a score
\* above 5.0 was emitted as 5.0 and a score below 1.0 as 1.0
C10_Witness ==
    /\ LabelReturned
    /\ lab_in.kind = "FunkSVD"
    /\ ~lab_in.binary_ratings
    /\ \E k \in 1..Len(lab_in.cands) :
         /\ lab_in.sc[k] > MaxRating
         /\ \E j \in 1..Len(lab_out.triplets) :
              /\ TKey(lab_out.triplets[j]) = lab_in.cands[k]
              /\ lab_out.triplets[j].rating = MaxRating
    /\ \E k \in 1..Len(lab_in.cands) :
         /\ lab_in.sc[k] < MinRating
         /\ \E j \in 1..Len(lab_out.triplets) :
              /\ TKey(lab_out.triplets[j]) = lab_in.cands[k]
              /\ lab_out.triplets[j].rating = MinRating

\* the score the model gave a candidate pair of the call
ScoreOf(p) == lab_in.sc[CHOOSE k \in 1..Len(lab_in.cands) : lab_in.cands[k] = p]

\* the pairs the call emitted in a class
Emitted(c) ==
    {TKey(lab_out.triplets[k]) :
        k \in {j \in 1..Len(lab_out.triplets) : lab_out.triplets[j].cls = c}}

\* C11: in explicit mode FunkSVD.label and AsySVD.label classify a candidate
\* as positive iff score >= 3.5 and as negative iff score <= 2.5 (neutral
\* between): an emitted positive has score >= 3.5, an emitted negative has
\* score <= 2.5, and when the truncation cannot bite every candidate with
\* score >= 3.5 is emitted positive and every one with score <= 2.5 negative.
C11_ThresholdClasses ==
    (LabelReturned /\ ~lab_in.binary_ratings /\ lab_in.kind \in {"FunkSVD", "AsySVD"}) =>
        /\ \A p \in Emitted("pos") : ScoreOf(p) >= PosThreshold
        /\ \A p \in Emitted("neg") : ScoreOf(p) <= NegThreshold
        /\ lab_in.p_most >= Len(lab_in.cands) =>
              \A k \in 1..Len(lab_in.cands) :
                 lab_in.sc[k] >= PosThreshold => lab_in.cands[k] \in Emitted("pos")
        /\ lab_in.n_most >= Len(lab_in.cands) =>
              \A k \in 1..Len(lab_in.cands) :
                 lab_in.sc[k] <= NegThreshold => lab_in.cands[k] \in Emitted("neg")

\* the candidates of the call whose score lies in [lo, hi]
InRange(lo, hi) ==
    {lab_in.cands[k] : k \in {j \in 1..Len(lab_in.cands) :
                                 lab_in.sc[j] >= lo /\ lab_in.sc[j] <= hi}}

\* C12: in binary mode label completes without error, the emitted positives
\* are the p_most highest-scoring candidates with score in [0.75, 1.0] and
\* the emitted negatives the n_most lowest-scoring candidates with score in
\* [0.0, 0.75).
C12_BinarySelect ==
    (pc = "returned" /\ lab_in.binary_ratings) =>
        /\ ~lab_out.raised
        /\ Emitted("pos") \subseteq InRange(BinThreshold, BinMax)
        /\ Cardinality(Emitted("pos")) =
              Min2(lab_in.p_most, Cardinality(InRange(BinThreshold, BinMax)))
        /\ \A p \in Emitted("pos") :
              \A q \in InRange(BinThreshold, BinMax) \ Emitted("pos") :
                 ScoreOf(q) <= ScoreOf(p)
        /\ Emitted("neg") \subseteq InRange(0, BinThreshold - 1)
        /\ Cardinality(Emitted("neg")) =
              Min2(lab_in.n_most, Cardinality(InRange(0, BinThreshold - 1)))
        /\ \A p \in Emitted("neg") :
              \A q \in InRange(0, BinThreshold - 1) \ Emitted("neg") :
                 ScoreOf(q) >= ScoreOf(p)

PosClass ==
    IF lab_in.kind = "FunkSVD" THEN lab_out.pos_set
    ELSE IF lab_in.binary_ratings THEN InRange(BinThreshold, BinMax)
    ELSE InRange(AsyPosLow, MaxRating)

NegClass ==
    IF lab_in.kind = "FunkSVD" THEN lab_out.neg_set
    ELSE IF lab_in.binary_ratings THEN InRange(0, BinThreshold - 1)
    ELSE InRange(MinRating, AsyNegHigh)

\* C23: in the threshold-based label the emitted positives are the
\* highest-scoring members of the positive class and the emitted negatives
\* the lowest-scoring members of the negative class: a positive-classified
\* candidate that is not emitted scores no higher than any emitted positive,
\* a negative-classified one that is not emitted no lower than any emitted
\* negative.
C23_MostConfident ==
    (LabelReturned /\ lab_in.kind \in {"FunkSVD", "AsySVD"}) =>
        /\ Emitted("pos") \subseteq PosClass
        /\ \A p \in Emitted("pos") : \A q \in PosClass \ Emitted("pos") :
              ScoreOf(q) <= ScoreOf(p)
        /\ Emitted("neg") \subseteq NegClass
        /\ \A p \in Emitted("neg") : \A q \in NegClass \ Emitted("neg") :
              ScoreOf(q) >= ScoreOf(p)

\* three positive-classified candidates with different scores of which the
\* truncation leaves out the lowest, which is not the last in candidate order
C23_Witness ==
    /\ LabelReturned
    /\ lab_in.kind = "FunkSVD"
    /\ lab_in.sc = <<450, 350, 600>>
    /\ lab_in.p_most = 2
    /\ Emitted("pos") = {lab_in.cands[1], lab_in.cands[3]}
    /\ lab_out.pos_set = {lab_in.cands[1], lab_in.cands[2], lab_in.cands[3]}

\* the number of candidates of the call that qualify as positive / negative:
\* the threshold classes of FunkSVD.label, every candidate in the rank-based
\* BPRMF.label
NumQualified(c) ==
    IF lab_in.kind = "BPRMF" THEN Len(lab_in.cands)
    ELSE IF c = "pos"
    THEN Cardinality({k \in 1..Len(lab_in.sc) : lab_in.sc[k] >= PosThreshold})
    ELSE Cardinality({k \in 1..Len(lab_in.sc) : lab_in.sc[k] <= NegThreshold})

\* C24: label neither pads nor errors when too few candidates qualify: it
\* returns min(p_most, number of positive-classified candidates) positive
\* triplets and min(n_most, number of negative-classified candidates)
\* negative ones, and its metadata has pos_labels and neg_labels equal to
\* these counts and total_labels = pos_labels + neg_labels = length of the
\* returned list.
C24_NoPadding ==
    (pc = "returned" /\ lab_in.kind \in {"FunkSVD", "BPRMF"}) =>
        /\ ~lab_out.raised
        /\ CountCls(lab_out.triplets, "pos") =
              Min2(lab_in.p_most, NumQualified("pos"))
        /\ CountCls(lab_out.triplets, "neg") =
              Min2(lab_in.n_most, NumQualified("neg"))
        /\ lab_out.pos_labels = CountCls(lab_out.triplets, "pos")
        /\ lab_out.neg_labels = CountCls(lab_out.triplets, "neg")
        /\ lab_out.total_labels = lab_out.pos_labels + lab_out.neg_labels
        /\ lab_out.total_labels = Len(lab_out.triplets)

\* C25: the accepted score_mode values 'user', 'batch' and 'matrix' are
\* equivalent: a call with any of them on the same fitted model, candidates
\* and parameters returns the triplet list and the metadata of the per-user
\* call.
C25_ScoreModesEquivalent ==
    [][(pc = "returned" /\ pc' \in ScoreModes) => lab_out' = lab_out]_vars

\* C28: the triplets one label call returns name pairwise distinct
\* (user, item) pairs, so no pair is emitted both as a positive and as a
\* negative label, for every implementation and candidate list.
C28_DistinctPairs ==
    LabelReturned =>
        \A j, k \in 1..Len(lab_out.triplets) :
            j # k => TKey(lab_out.triplets[j]) # TKey(lab_out.triplets[k])

\* ===================================================================
\* Properties of CoTraining.fit (Spec)
\* ===================================================================
RoundStart == pc = "fit1"
RoundEnd == pc = "loop" /\ i_iter >= 0

NonZero(X) == {p \in Pairs : X[p] # 0}

\* the pairs a recommender's label call returned in the current round
\* (none when the call raised)
LabeledNow(l) == IF l.fresh THEN ListKeys(l.list) ELSE {}

\* C1: at the start of every round, every pooled pair (flag nonzero) is
\* zero in both X1 and X2.
C1_PoolAbsentFromBoth ==
    RoundStart => \A p \in Pool(u_prime) : X1[p] = 0 /\ X2[p] = 0

\* the start of the second round: labels were applied, consumed keys stay
\* in the dict with flag 0, and the pool was replenished
C1_Witness ==
    /\ RoundStart
    /\ i_iter = 1
    /\ Pool(u_prime) # {}
    /\ \E p \in DOMAIN u_prime : u_prime[p] = 0 /\ (X1[p] # 0 \/ X2[p] # 0)
    /\ NonZero(X1) # NonZero(X2)

\* C2: X1 and X2 never lose entries: a cell that is nonzero stays nonzero
\* in every step of fit, so the number of nonzero entries never decreases.
C2_NeverLoseEntries ==
    [][/\ \A p \in Pairs : X1[p] # 0 => X1'[p] # 0
       /\ \A p \in Pairs : X2[p] # 0 => X2'[p] # 0]_vars

\* the end of the second round, both matrices having grown beyond the
\* observed ratings
C2_Witness ==
    /\ RoundEnd
    /\ i_iter = 1
    /\ Cardinality(NonZero(X1)) >= 2
    /\ Cardinality(NonZero(X2)) >= 3

C5_PoolSizeStable ==
    RoundStart => Cardinality(Pool(u_prime)) = self.n_labels

\* C6: when the seeding loop completes the pool holds exactly n_labels
\* distinct pairs, each zero in X1.
C6_SeedExact ==
    (pc = "loop" /\ i_iter = -1) =>
        /\ Cardinality(Pool(u_prime)) = self.n_labels
        /\ \A p \in Pool(u_prime) : X1[p] = 0

\* cells a replenishment could add as new pool members when it started
FreeBefore == {p \in Pairs : X1[p] = 0 /\ X2[p] = 0} \ Pool(u_before)

Stopped == pc \in {"done", "aborted"}

\* C15: fit follows Initializing -> Iterating x n_iters -> Done: the round
\* index increases by one per round, starting a round each time, and fit
\* stops only by returning after exactly n_iters rounds (none when
\* n_iters = 0), never short of them.
C15_ExactlyNIters ==
    /\ [](Stopped => (pc = "done" /\ i_iter + 1 = self.n_iters))
    /\ [][i_iter' # i_iter => (i_iter' = i_iter + 1 /\ pc' = "fit1")]_vars

\* C16: if the fit call of recommender 1 or of recommender 2 raises in a
\* round, the run does not abort: the recommender keeps the model state it
\* had and the round goes on to its next step.
C16_FitFailureTolerated ==
    [][(pc \in {"fit1", "fit2"} /\ faults' # faults) =>
          /\ pc' = (IF pc = "fit1" THEN "fit2" ELSE "eval")
          /\ fitted1' = fitted1
          /\ fitted2' = fitted2]_vars

\* the triplets a recommender contributes in the round: those its label
\* call returned, none when the call raised
FreshList(l) == IF l.fresh THEN l.list ELSE <<>>

\* C17: if a recommender's label call raises in a round (the first round
\* included) it contributes zero labels: the merge step writes and consumes
\* only what the label calls of this round returned, the run goes on to
\* replenishment, and the replenishment draws no more pairs than the calls
\* of this round returned.
C17_LabelFailureTolerated ==
    /\ [][pc = "apply" =>
            /\ pc' = "replenish"
            /\ X2' = UpdateAll(X2, FreshList(labeled1))
            /\ X1' = UpdateAll(X1, FreshList(labeled2))
            /\ u_prime' = ConsumeAll(ConsumeAll(u_prime, FreshList(labeled1)),
                                     FreshList(labeled2))]_vars
    /\ [](pc = "replenish" =>
            i <= Len(FreshList(labeled1)) + Len(FreshList(labeled2)))

BeforeMerge == pc \in {"fit1", "fit2", "eval", "label1", "label2"}

\* C21: within a round both labelers receive the same candidate list, the
\* pool as it was before any of the round's mutations: no step of the round
\* up to the return of the second label call changes the pool or a matrix;
\* pairs leave the pool only in the merge step, after both calls, and pairs
\* enter it only in the replenishment, which consumes nothing.
C21_SnapshotThenMutate ==
    [][/\ BeforeMerge => (u_prime' = u_prime /\ X1' = X1 /\ X2' = X2)
       /\ ~(Pool(u_prime) \subseteq Pool(u_prime')) => pc = "apply"
       /\ (pc = "apply" /\ pc' = "replenish") => Pool(u_prime') \subseteq Pool(u_prime)
       /\ (~(Pool(u_prime') \subseteq Pool(u_prime)) /\ i_iter >= 0) =>
             (pc = "replenish" /\ Pool(u_prime) \subseteq Pool(u_prime'))]_vars

\* the end of a round in which both recommenders returned labels, pairs were
\* consumed, and the replenishment then added a pair
C21_Witness ==
    /\ RoundEnd
    /\ labeled1.fresh /\ labeled1.list # <<>>
    /\ labeled2.fresh /\ labeled2.list # <<>>
    /\ Pool(u_before) # Pool(u_prime)
    /\ \E p \in DOMAIN u_prime : u_prime[p] = 0

FreeCells(X) == Cardinality({p \in Pairs : X[p] = 0})

\* C26: when X1 has fewer than n_labels free cells the seeding loop never
\* exits: no step leaves the seeding phase and no round is started.
C26_SeedingStarves ==
    [][(pc = "seed" /\ FreeCells(X1) < self.n_labels) => pc' = "seed"]_vars

\* every cell holds a value in X1 or in X2
AllFilled == \A p \in Pairs : X1[p] # 0 \/ X2[p] # 0

\* C27: replenishment is rejection sampling without cap or fallback.  While
\* the count len(labeled1) + len(labeled2) is not reached and every cell is
\* nonzero in X1 or in X2, no step leaves the loop, counts a draw or changes
\* the pool; the loop is entered with no draw counted, a draw is counted only
\* when a pair free in both matrices was pooled, one at a time, and the loop
\* is left only with exactly len(labeled1) + len(labeled2) draws counted.
C27_ReplenishUncapped ==
    [][/\ (pc = "apply" /\ pc' = "replenish") => i' = 0
       /\ pc = "replenish" =>
            /\ (i < Len(labeled1.list) + Len(labeled2.list) /\ AllFilled) =>
                  (pc' = "replenish" /\ i' = i /\ u_prime' = u_prime)
            /\ i' # i =>
                  /\ i' = i + 1
                  /\ \E p \in Pairs :
                        /\ X1[p] = 0 /\ X2[p] = 0
                        /\ p \in Pool(u_prime')
                        /\ \A q \in DOMAIN u_prime : u_prime'[q] = u_prime[q] \/ q = p
            /\ u_prime' # u_prime => i' = i + 1
            /\ pc' # "replenish" =>
                  (pc' = "loop" /\ i = Len(labeled1.list) + Len(labeled2.list))]_vars

\* a replenishment that owes a draw while no cell is free in both matrices
C27_Witness ==
    /\ pc = "replenish"
    /\ i < Len(labeled1.list) + Len(labeled2.list)
    /\ AllFilled
    /\ Len(labeled1.list) > 0

Recorded(evals) == {evals[k] : k \in 1..Len(evals)}

InStep == twin.turn = "A" /\ PhaseEnd(RunA) /\ PhaseEnd(twin.run)

====
